---- MODULE Spec2Model ----
(***************************************************************************)
(* State-machine model of cluster.py: the script that loads a shapefile,   *)
(* recovers the attribute columns, derives precio_m2, builds a KNN weights *)
(* structure, computes Moran's I and the local Moran statistics and plots  *)
(* the LISA quadrants.                                                     *)
(*                                                                         *)
(* The script calls libpysal (KNN.from_dataframe, W.transform) and esda    *)
(* (Moran, Moran_Local).  Each call is modelled by the computation the     *)
(* library performs at that call site.  Floating point values are exact    *)
(* rationals <<num, den>> extended with NaN and +/-inf as IEEE arithmetic  *)
(* produces them; rounding is not modelled.  numpy's global generator is a *)
(* small deterministic stream whose initial state is arbitrary, because    *)
(* the script never seeds it.                                              *)
(***************************************************************************)
EXTENDS Integers, Sequences, FiniteSets, TLC

\* ------------------------------------------------------------------ bounds
MaxUnits == 3        \* most records in a table of the k-generalised runs
MaxK == 2            \* largest k of the k-generalised runs
PERMUTATIONS == 2    \* replications per statistic (esda's default is 999)

\* ------------------------------------------------------- program constants
K == 8               \* KNN.from_dataframe(gdf, k=8)

Points == {<<0, 0>>, <<1, 0>>}     \* projected coordinates the inputs use
Values == {1, 2, 3}                \* total_uf values the inputs use
Seeds == {0, 1, 5}                 \* generator states a process may start in

\* ------------------------------------------------ IEEE-like exact numbers
Abs(a) == IF a < 0 THEN -a ELSE a
Sign(a) == IF a < 0 THEN -1 ELSE IF a > 0 THEN 1 ELSE 0

RECURSIVE GCD(_, _)
GCD(a, b) == IF b = 0 THEN a ELSE GCD(b, a % b)

NaN == <<0, 0>>
IsNaN(r) == r[1] = 0 /\ r[2] = 0
IsInf(r) == r[1] # 0 /\ r[2] = 0

Norm(n, d) ==
    IF d = 0 THEN <<Sign(n), 0>>
    ELSE LET g == GCD(Abs(n), Abs(d))
             s == IF d < 0 THEN -1 ELSE 1
         IN  <<(s * n) \div g, (s * d) \div g>>

Num(i) == <<i, 1>>
Zero == Num(0)

RAdd(a, b) ==
    IF IsNaN(a) \/ IsNaN(b) THEN NaN
    ELSE IF IsInf(a) /\ IsInf(b) THEN (IF a[1] = b[1] THEN a ELSE NaN)
    ELSE IF IsInf(a) THEN a
    ELSE IF IsInf(b) THEN b
    ELSE Norm(a[1] * b[2] + b[1] * a[2], a[2] * b[2])

RNeg(a) == <<-a[1], a[2]>>
RSub(a, b) == RAdd(a, RNeg(b))

RMul(a, b) ==
    IF IsNaN(a) \/ IsNaN(b) THEN NaN
    ELSE IF IsInf(a) \/ IsInf(b) THEN <<Sign(a[1]) * Sign(b[1]), 0>>
    ELSE Norm(a[1] * b[1], a[2] * b[2])

RDiv(a, b) ==
    IF IsNaN(a) \/ IsNaN(b) THEN NaN
    ELSE IF IsInf(b) THEN (IF IsInf(a) THEN NaN ELSE Zero)
    ELSE IF IsInf(a) THEN <<a[1] * (IF b[1] < 0 THEN -1 ELSE 1), 0>>
    ELSE IF b[1] = 0 THEN <<Sign(a[1]), 0>>
    ELSE Norm(a[1] * b[2], a[2] * b[1])

\* comparisons are false as soon as one side is NaN
Ext(r) == IF r[2] = 0 THEN 2 * r[1] ELSE 0
RLt(a, b) ==
    /\ ~IsNaN(a) /\ ~IsNaN(b)
    /\ IF a[2] = 0 \/ b[2] = 0 THEN Ext(a) < Ext(b)
       ELSE a[1] * b[2] < b[1] * a[2]
RGt(a, b) == RLt(b, a)
RGe(a, b) == ~IsNaN(a) /\ ~IsNaN(b) /\ ~RLt(a, b)

Range(s) == {s[i] : i \in DOMAIN s}

RECURSIVE RSumSeq(_)
RSumSeq(s) == IF s = <<>> THEN Zero ELSE RAdd(s[1], RSumSeq(Tail(s)))

RECURSIVE SetToSeq(_)
SetToSeq(S) ==
    IF S = {} THEN <<>>
    ELSE LET m == CHOOSE x \in S : \A y \in S : x <= y
         IN  <<m>> \o SetToSeq(S \ {m})

\* ---------------------------------------------------------------- columns
required_cols == {"total_uf", "t_constr"}

Suffixed(c, s) ==
    CASE c = "total_uf" /\ s = "x" -> "total_uf_x"
      [] c = "total_uf" /\ s = "y" -> "total_uf_y"
      [] c = "t_constr" /\ s = "x" -> "t_constr_x"
      [] c = "t_constr" /\ s = "y" -> "t_constr_y"
      [] c = "id" /\ s = "x" -> "id_x"
      [] c = "id" /\ s = "y" -> "id_y"
      [] OTHER -> c

\* DataFrame.merge(df_attr, on=key, how="left"): the key column once, every
\* other column of both frames, a name that occurs in both suffixed _x and _y
MergeCols(left, right, key) ==
    LET overlap == (left \cap right) \ {key}
    IN  ((left \cup right) \ overlap)
          \cup {Suffixed(c, "x") : c \in overlap}
          \cup {Suffixed(c, "y") : c \in overlap}

\* gdf.join(df_attr.set_index("index"), how="left")
JoinCols(left, right) == left \cup (right \ {"index"})

VARIABLES
    pc,            \* position in the script
    crs,           \* gdf.crs
    err,           \* exception that ended the script, "" while none
    argv_csv,      \* len(sys.argv) > 3 and os.path.exists(sys.argv[3])
    df_attr,       \* the CSV: [cols, same_rows]
    gdf,           \* [cols, rows]; a row holds the geometry and the columns
    k,             \* the k handed to KNN.from_dataframe
    w,             \* [neighbors, weights, transform]
    rng,           \* state of numpy's global generator
    moran,         \* [I, sim, p_sim]
    lisa,          \* [Is, q, rlisas, p_sim]
    plotted,       \* the category drawn for each unit, <<>> before the plot
    printed,       \* the values print() has written
    run,           \* 1 in the first execution, 2 in a repeated one
    first          \* [moran, lisa] of the first execution

vars == <<pc, crs, err, argv_csv, df_attr, gdf, k, w, rng, moran, lisa, plotted,
          printed, run, first>>

NoW == [neighbors |-> <<>>, weights |-> <<>>, transform |-> "O"]
NoMoran == [I |-> NaN, sim |-> <<>>, p_sim |-> NaN]
NoLisa == [Is |-> <<>>, q |-> <<>>, rlisas |-> <<>>, p_sim |-> <<>>]

Row(pt, uf, tc) ==
    [pt |-> pt, total_uf |-> uf, t_constr |-> tc, precio_m2 |-> NaN,
     lisa_cluster |-> 0, lisa_sig |-> FALSE]

N == Len(gdf.rows)
Units == 1..N

Fail(e) == /\ pc' = "failed"
           /\ err' = e

\* ------------------------------------------------------------ KNN (l. 120)
Dist2(p, q) == (p[1] - q[1]) * (p[1] - q[1]) + (p[2] - q[2]) * (p[2] - q[2])

\* kdtree.query(data[i], k=m): the m nearest points in order of distance;
\* the order among equally distant points is the tree's, so every order is
\* possible; a missing neighbour is reported as index n (here Len(pts) + 1)
RECURSIVE Query(_, _, _, _)
Query(pts, i, m, acc) ==
    IF m = 0 THEN {acc}
    ELSE LET rest == (1..Len(pts)) \ Range(acc)
         IN  IF rest = {}
             THEN Query(pts, i, m - 1, Append(acc, Len(pts) + 1))
             ELSE LET near == {c \in rest : \A d \in rest :
                                 Dist2(pts[i], pts[c]) <= Dist2(pts[i], pts[d])}
                  IN  UNION {Query(pts, i, m - 1, Append(acc, c)) : c \in near}

\* KNN.__init__: mask the unit itself out of its k+1 query results; when it
\* is not among them (k+1 coincident points) drop the last result
NotSelf(row, i) ==
    LET kept == SelectSeq(row, LAMBDA j : j # i)
    IN  IF Len(kept) = Len(row) THEN SubSeq(row, 1, Len(row) - 1) ELSE kept

\* the query asked for k points instead of k+1, so masking the unit itself
\* leaves one neighbour too few
NeighborRowsShort(pts, i, kk) ==
    {SetToSeq(Range(NotSelf(row, i))) : row \in Query(pts, i, kk, <<>>)}

\* neighbors[i]; nothing reads the order of a row, it is kept by ascending id
NeighborRows(pts, i, kk) ==
    {SetToSeq(Range(NotSelf(row, i))) : row \in Query(pts, i, kk + 1, <<>>)}

RECURSIVE KNNGraphs(_, _, _)
KNNGraphs(pts, kk, n) ==
    IF n = 0 THEN {<<>>}
    ELSE {Append(g, row) : g \in KNNGraphs(pts, kk, n - 1),
                           row \in NeighborRows(pts, n, kk)}

\* an index outside 0..n-1 cannot be looked up in ids
BadIndex(g, n) == \E i \in DOMAIN g : \E j \in Range(g[i]) : j > n

\* ------------------------------------------------- w.transform = "R" (121)
RowSum(wrow) == RSumSeq([j \in DOMAIN wrow |-> wrow[j]])

\* the unit itself counted in the row total
RowStandardizeCountSelf(wrow) ==
    LET s == RAdd(RowSum(wrow), Num(1))
    IN  [j \in DOMAIN wrow |-> RDiv(wrow[j], s)]

RowStandardize(wrow) ==
    LET s == RowSum(wrow)
    IN  [j \in DOMAIN wrow |-> RDiv(wrow[j], s)]

S0(ww) == RSumSeq([i \in DOMAIN ww.weights |-> RowSum(ww.weights[i])])

\* ------------------------------------------- numpy's global generator
NextRng(s) == (5 * s + 3) % 32

RECURSIVE RngAt(_, _)
RngAt(s, n) == IF n = 0 THEN s ELSE RngAt(NextRng(s), n - 1)

RECURSIVE Fact(_)
Fact(n) == IF n <= 1 THEN 1 ELSE n * Fact(n - 1)

Remove(s, p) == SubSeq(s, 1, p - 1) \o SubSeq(s, p + 1, Len(s))

RECURSIVE Unrank(_, _)
Unrank(idx, items) ==
    IF Len(items) = 0 THEN <<>>
    ELSE LET f == Fact(Len(items) - 1)
             p == (idx \div f) + 1
         IN  <<items[p]>> \o Unrank(idx % f, Remove(items, p))

\* np.random.permutation(items) in generator state s
Permutation(s, items) == Unrank(s % Fact(Len(items)), items)

\* ------------------------------------------------- esda.Moran (l. 127)
Y == [i \in Units |-> gdf.rows[i].precio_m2]

Mean(y) == RDiv(RSumSeq(y), Num(Len(y)))
Deviations(y) == [i \in DOMAIN y |-> RSub(y[i], Mean(y))]
SumSq(z) == RSumSeq([i \in DOMAIN z |-> RMul(z[i], z[i])])

\* lag_spatial(w, z)[i]
Lag(ww, z, i) ==
    RSumSeq([p \in DOMAIN ww.neighbors[i] |->
                RMul(ww.weights[i][p], z[ww.neighbors[i][p]])])

\* Moran.__calc: self.n / self.w.s0 * inum / self.z2ss
MoranCalc(ww, z, z2ss) ==
    LET inum == RSumSeq([i \in DOMAIN z |-> RMul(z[i], Lag(ww, z, i))])
    IN  RDiv(RMul(RDiv(Num(Len(z)), S0(ww)), inum), z2ss)

CountGe(sim, obs) == Cardinality({r \in DOMAIN sim : RGe(sim[r], obs)})

\* the count of larger replications used as it is, never folded
PSimUnfolded(sim, obs) ==
    RDiv(Num(CountGe(sim, obs) + 1), Num(Len(sim) + 1))

\* larger = (sim >= obs).sum(); folded when more than half are larger;
\* p_sim = (larger + 1) / (permutations + 1)
PSim(sim, obs) ==
    LET above == CountGe(sim, obs)
        larger == IF (Len(sim) - above) < above THEN Len(sim) - above ELSE above
    IN  RDiv(Num(larger + 1), Num(Len(sim) + 1))

MoranSim(ww, z, z2ss, s) ==
    [r \in 1..PERMUTATIONS |->
        MoranCalc(ww, Permutation(RngAt(s, r - 1), z), z2ss)]

Moran(y, ww, s) ==
    LET z == Deviations(y)
        z2ss == SumSq(z)
        I == MoranCalc(ww, z, z2ss)
        sim == MoranSim(ww, z, z2ss, s)
    IN  [I |-> I, sim |-> sim, p_sim |-> PSim(sim, I)]

\* print(f"... {moran.I:.3f} ... {moran.p_sim:.4f}"): the value rounded to
\* `digits` decimals (half to even), or the text nan / inf
Pow10(d) == IF d = 3 THEN 1000 ELSE 10000
RoundHalfEven(n, d) ==
    LET q == n \div d
        r == n % d
    IN  IF 2 * r < d THEN q
        ELSE IF 2 * r > d THEN q + 1
        ELSE IF q % 2 = 0 THEN q ELSE q + 1
Format(r, digits) ==
    IF IsNaN(r) THEN [text |-> "nan", scaled |-> 0]
    ELSE IF IsInf(r) THEN [text |-> "inf", scaled |-> r[1]]
    ELSE [text |-> "number",
          scaled |-> Sign(r[1]) * RoundHalfEven(Abs(r[1]) * Pow10(digits), r[2])]

\* -------------------------------------------- esda.Moran_Local (l. 133)
\* z = (y - y.mean()) / y.std(): 0/0 for constant y.  The statistics below
\* are invariant under the positive scale y.std(), so the deviation itself
\* stands for z whenever y.std() > 0
LocalZ(y) ==
    LET d == Deviations(y)
    IN  IF SumSq(d) = Zero THEN [i \in DOMAIN y |-> NaN] ELSE d

\* Moran_Local.calc: self.n_1 * self.z * zl / self.den
LocalIs(ww, z) ==
    LET den == SumSq(z)
    IN  [i \in DOMAIN z |->
            RDiv(RMul(RMul(Num(Len(z) - 1), z[i]), Lag(ww, z, i)), den)]

\* the GeoDa numbering (1 HH, 2 LL, 3 LH, 4 HL) under the script's labels
QuadGeoda(zi, zl) ==
    LET zp == RGt(zi, Zero)
        lp == RGt(zl, Zero)
    IN  IF zp /\ lp THEN 1
        ELSE IF ~zp /\ lp THEN 3
        ELSE IF ~zp /\ ~lp THEN 2
        ELSE 4

\* Moran_Local.__quads: zp = z > 0, lp = zl > 0,
\* q = 1*pp + 2*np + 3*nn + 4*pn
Quad(zi, zl) ==
    LET zp == RGt(zi, Zero)
        lp == RGt(zl, Zero)
    IN  IF zp /\ lp THEN 1
        ELSE IF ~zp /\ lp THEN 2
        ELSE IF ~zp /\ ~lp THEN 3
        ELSE 4

LocalQ(ww, z) == [i \in DOMAIN z |-> Quad(z[i], Lag(ww, z, i))]

\* conditional randomisation: z[i] stays, the cardinality of i many of the
\* other units, in a random order, take the place of its neighbours
Others(n, i) == SetToSeq((1..n) \ {i})

RandLocal(ww, z, i, s) ==
    LET ids == Permutation(s, Others(Len(z), i))
        den == SumSq(z)
        lagr == RSumSeq([p \in DOMAIN ww.weights[i] |->
                            RMul(ww.weights[i][p], z[ids[p]])])
    IN  RDiv(RMul(RMul(Num(Len(z) - 1), z[i]), lagr), den)

LocalSims(ww, z, s) ==
    [i \in DOMAIN z |->
        [r \in 1..PERMUTATIONS |->
            RandLocal(ww, z, i, RngAt(s, (i - 1) * PERMUTATIONS + r - 1))]]

Moran_Local(y, ww, s) ==
    LET z == LocalZ(y)
        Is == LocalIs(ww, z)
        rl == LocalSims(ww, z, s)
    IN  [Is |-> Is, q |-> LocalQ(ww, z), rlisas |-> rl,
         p_sim |-> [i \in DOMAIN z |-> PSim(rl[i], Is[i])]]

\* --------------------------------------------------- labels (l. 137-157)
ALPHA == <<1, 20>>

cluster_labels(q) ==
    CASE q = 1 -> "Alto-Alto (Hotspot)"
      [] q = 2 -> "Bajo-Alto"
      [] q = 3 -> "Bajo-Bajo (Coldspot)"
      [] q = 4 -> "Alto-Bajo"
      [] OTHER -> "nan"

QuadrantLabels == {cluster_labels(q) : q \in 1..4}

\* ================================================================ inputs
LibraryErrors == {"IndexError", "ValueError"}

Complete == {"geometry", "id", "total_uf", "t_constr"}

\* the columns a shapefile may have, and the columns a CSV may have
ShapeCols == {{"geometry"} \cup c : c \in SUBSET {"id", "total_uf", "t_constr"}}
CsvCols == SUBSET {"id", "index", "total_uf", "t_constr"}
NoCsv == [cols |-> {}, same_rows |-> FALSE]

\* tables of the script's own runs: n records on a line, one unit apart
LineTable(n, alternate, bad) ==
    [i \in 1..n |->
        Row(<<i, 0>>,
            IF bad = "nan_uf" /\ i = 1 THEN NaN
            ELSE Num(IF alternate THEN 1 + (i % 2) ELSE 1),
            IF bad = "zero_tc" /\ i = 1 THEN Zero
            ELSE IF bad = "nan_tc" /\ i = 1 THEN NaN
            ELSE Num(1 + (i % 2)))]

ProgramTables ==
    {LineTable(n, a, b) : n \in 0..(K + 2), a \in BOOLEAN,
                          b \in {"none", "nan_uf", "zero_tc", "nan_tc"}}

\* tables of the k-generalised runs: any coordinates with a few value
\* patterns, or a few layouts with any values
Ramp(n) == [i \in 1..n |-> 1 + ((i - 1) % Cardinality(Values))]
Flat(n) == [i \in 1..n |-> 1]
Halves(n) == [i \in 1..n |-> IF 2 * i <= n THEN 1 ELSE 2]
Apart(n) == [i \in 1..n |-> IF i % 2 = 1 THEN <<0, 0>> ELSE <<1, 0>>]
Pairs(n) == [i \in 1..n |-> IF 2 * i <= n + 1 THEN <<0, 0>> ELSE <<1, 0>>]

Inputs(n) ==
    {<<c, v>> : c \in [1..n -> Points], v \in {Ramp(n), Flat(n), Halves(n)}}
      \cup {<<c, v>> : c \in {Apart(n), Pairs(n)}, v \in [1..n -> Values]}

EngineTables ==
    UNION {{[i \in 1..n |-> [Row(in[1][i], Num(in[2][i]), Num(1))
                               EXCEPT !.precio_m2 = Num(in[2][i])]] :
              in \in Inputs(n)} : n \in 1..MaxUnits}

\* ================================================================= Init
InitRest ==
    /\ err = ""
    /\ w = NoW
    /\ moran = NoMoran
    /\ lisa = NoLisa
    /\ plotted = <<>>
    /\ printed = <<>>
    /\ run = 1
    /\ first = [moran |-> NoMoran, lisa |-> NoLisa]

\* the script started on some shapefile, with or without a CSV argument
Init ==
    /\ pc = "load"
    /\ crs = "unread"
    /\ k = K
    /\ \/ /\ gdf \in {[cols |-> Complete, rows |-> t] : t \in ProgramTables}
          /\ argv_csv = FALSE
          /\ df_attr = NoCsv
          /\ rng \in Seeds
       \/ /\ gdf \in {[cols |-> c, rows |-> LineTable(K + 1, TRUE, "none")] :
                         c \in ShapeCols \ {Complete}}
          /\ argv_csv \in BOOLEAN
          /\ df_attr \in IF argv_csv
                         THEN [cols : CsvCols, same_rows : BOOLEAN]
                         ELSE {NoCsv}
          /\ rng = 0
    /\ InitRest

\* the engine calls of lines 120-157 on a filtered table, for every k
InitK ==
    /\ pc = "knn"
    /\ crs = "EPSG:32719"
    /\ k \in 1..MaxK
    /\ gdf \in {[cols |-> Complete \cup {"precio_m2"}, rows |-> t] :
                   t \in EngineTables}
    /\ argv_csv = FALSE
    /\ df_attr = NoCsv
    /\ rng \in Seeds
    /\ InitRest

\* ============================================================== actions
data == <<argv_csv, df_attr, gdf, k>>
results == <<w, rng, moran, lisa, plotted, printed>>
runs == <<run, first>>

\* l. 19-47: the path exists, or a sibling directory holds the file, or
\* FileNotFoundError; read_file gives the frame and its CRS
LoadShapefile ==
    /\ pc = "load"
    /\ \E found \in {"path", "candidate", "none"}, read \in {"none", "file"} :
          IF found = "none"
          THEN Fail("FileNotFoundError") /\ crs' = crs
          ELSE pc' = "crs" /\ err' = err /\ crs' = read
    /\ UNCHANGED <<data, results, runs>>

\* l. 54-63: a frame without CRS gets sys.argv[2] or EPSG:4326
AssignCRS ==
    /\ pc = "crs"
    /\ \E has_argv2 \in BOOLEAN :
          crs' = IF crs = "none"
                 THEN (IF has_argv2 THEN "argv" ELSE "EPSG:4326")
                 ELSE crs
    /\ pc' = "reproject"
    /\ UNCHANGED <<err, data, results, runs>>

\* l. 66-69: to_crs(epsg=32719), any exception becomes RuntimeError
Reproject ==
    /\ pc = "reproject"
    /\ \E ok \in BOOLEAN :
          IF ok THEN pc' = "columns" /\ err' = err /\ crs' = "EPSG:32719"
          ELSE Fail("RuntimeError") /\ crs' = crs
    /\ UNCHANGED <<data, results, runs>>

missing == required_cols \ gdf.cols
common == gdf.cols \cap df_attr.cols

\* l. 75-109
RecoverColumns ==
    /\ pc = "columns"
    /\ IF missing = {} THEN pc' = "precio" /\ UNCHANGED <<err, gdf>>
       ELSE IF ~argv_csv THEN Fail("RuntimeError") /\ UNCHANGED gdf
       ELSE IF common # {}
            THEN \* key = list(set(...))[0]: whichever the set yields first
                 \E key \in common :
                    /\ gdf' = [gdf EXCEPT !.cols = MergeCols(@, df_attr.cols, key)]
                    /\ pc' = "precio" /\ err' = err
       ELSE IF "index" \in df_attr.cols
            THEN /\ gdf' = [gdf EXCEPT !.cols = JoinCols(@, df_attr.cols)]
                 /\ pc' = "precio" /\ err' = err
       ELSE IF df_attr.same_rows /\ required_cols \subseteq df_attr.cols
            THEN /\ gdf' = [gdf EXCEPT !.cols = @ \cup required_cols]
                 /\ pc' = "precio" /\ err' = err
       ELSE Fail("RuntimeError") /\ UNCHANGED gdf
    /\ UNCHANGED <<crs, argv_csv, df_attr, k, results, runs>>

\* l. 111: gdf["precio_m2"] = gdf["total_uf"] / gdf["t_constr"]
ComputePrecio ==
    /\ pc = "precio"
    /\ IF required_cols \subseteq gdf.cols
       THEN /\ gdf' = [cols |-> gdf.cols \cup {"precio_m2"},
                       rows |-> [i \in Units |->
                                   [gdf.rows[i] EXCEPT !.precio_m2 =
                                       RDiv(gdf.rows[i].total_uf,
                                            gdf.rows[i].t_constr)]]]
            /\ pc' = "filter" /\ err' = err
       ELSE Fail("KeyError") /\ UNCHANGED gdf
    /\ UNCHANGED <<crs, argv_csv, df_attr, k, results, runs>>

\* l. 114: gdf[gdf["t_constr"] > 0].dropna(subset=["precio_m2"])
Kept(r) == RGt(r.t_constr, Zero) /\ ~IsNaN(r.precio_m2)

Filter ==
    /\ pc = "filter"
    /\ gdf' = [gdf EXCEPT !.rows = SelectSeq(@, Kept)]
    /\ pc' = "knn"
    /\ UNCHANGED <<crs, err, argv_csv, df_attr, k, results, runs>>

Pts == [i \in Units |-> gdf.rows[i].pt]

\* l. 120: KNN.from_dataframe(gdf, k=k)
BuildKNN ==
    /\ pc = "knn"
    /\ IF N = 0
       THEN (\E e \in LibraryErrors : Fail(e)) /\ w' = w
       ELSE \E g \in KNNGraphs(Pts, k, N) :
               IF BadIndex(g, N)
               THEN Fail("IndexError") /\ w' = w
               ELSE /\ w' = [neighbors |-> g,
                             weights |-> [i \in Units |->
                                            [p \in DOMAIN g[i] |-> Num(1)]],
                             transform |-> "O"]
                    /\ pc' = "transform" /\ err' = err
    /\ UNCHANGED <<crs, data, rng, moran, lisa, plotted, printed, runs>>

\* l. 121: w.transform = "R"
Transform ==
    /\ pc = "transform"
    /\ w' = [w EXCEPT !.weights = [i \in Units |-> RowStandardize(w.weights[i])],
                      !.transform = "R"]
    /\ pc' = "moran"
    /\ UNCHANGED <<crs, err, data, rng, moran, lisa, plotted, printed, runs>>

\* l. 126-128
GlobalMoran ==
    /\ pc = "moran"
    /\ moran' = Moran(Y, w, rng)
    /\ rng' = RngAt(rng, PERMUTATIONS)
    /\ printed' = <<Format(moran'.I, 3), Format(moran'.p_sim, 4)>>
    /\ pc' = "lisa"
    /\ UNCHANGED <<crs, err, data, w, lisa, plotted, runs>>

\* l. 133
LocalMoran ==
    /\ pc = "lisa"
    /\ lisa' = Moran_Local(Y, w, rng)
    /\ rng' = RngAt(rng, N * PERMUTATIONS)
    /\ pc' = "store"
    /\ UNCHANGED <<crs, err, data, w, moran, plotted, printed, runs>>

\* l. 136-137
StoreLabels ==
    /\ pc = "store"
    /\ gdf' = [cols |-> gdf.cols \cup {"lisa_cluster", "lisa_sig"},
               rows |-> [i \in Units |->
                           [gdf.rows[i] EXCEPT
                              !.lisa_cluster = lisa.q[i],
                              !.lisa_sig = RLt(lisa.p_sim[i], ALPHA)]]]
    /\ pc' = "plot"
    /\ UNCHANGED <<crs, err, argv_csv, df_attr, k, results, runs>>

\* l. 142-160: the category of a unit is cluster_labels[lisa_cluster]
PlotMap ==
    /\ pc = "plot"
    /\ plotted' = [i \in Units |-> cluster_labels(gdf.rows[i].lisa_cluster)]
    /\ pc' = "done"
    /\ UNCHANGED <<crs, err, data, w, rng, moran, lisa, printed, runs>>

\* the script run once more on the same files: a new process, so a new
\* generator state; the k-d tree of the same points is the same tree
Rerun ==
    /\ pc = "done"
    /\ run = 1
    /\ run' = 2
    /\ first' = [moran |-> moran, lisa |-> lisa]
    /\ rng' \in Seeds
    /\ moran' = NoMoran
    /\ lisa' = NoLisa
    /\ plotted' = <<>>
    /\ printed' = <<>>
    /\ pc' = "moran"
    /\ UNCHANGED <<crs, err, data, w>>

Engine ==
    \/ BuildKNN
    \/ Transform
    \/ GlobalMoran
    \/ LocalMoran
    \/ StoreLabels
    \/ PlotMap

Next ==
    \/ LoadShapefile
    \/ AssignCRS
    \/ Reproject
    \/ RecoverColumns
    \/ ComputePrecio
    \/ Filter
    \/ Engine

NextRerun == Engine \/ Rerun

Spec == Init /\ [][Next]_vars
SpecK == InitK /\ [][Engine]_vars
SpecRerun == InitK /\ [][NextRerun]_vars

\* =============================================================== claims
Built == w # NoW
Z == LocalZ(Y)
Nb(i) == Range(w.neighbors[i])
D(i, j) == Dist2(Pts[i], Pts[j])
Constant(y) == Len(y) >= 1 /\ \A i \in DOMAIN y : y[i] = y[1]
Significant(i) == RLt(lisa.p_sim[i], ALPHA)
One == Num(1)
Min(a, b) == IF a < b THEN a ELSE b

\* C1: the label stored and drawn for a unit is its quadrant only when its
\* simulated p-value is below alpha; a unit with p >= alpha is drawn in a
\* "not significant" category, never as one of the four quadrants.
C1_LabelOnlyWhenSignificant ==
    pc = "done" =>
        \A i \in Units :
            ~Significant(i) =>
                /\ plotted[i] \notin QuadrantLabels
                /\ gdf.rows[i].lisa_cluster \notin 1..4

\* C2: with all values equal the Moran computations end in
\* DegenerateVariance: no I, Ii, quadrant or p-value is produced or printed.
C2_DegenerateVariance ==
    (Built /\ Constant(Y)) =>
        /\ moran = NoMoran
        /\ lisa = NoLisa
        /\ printed = <<>>
        /\ pc \in {"transform", "moran", "failed"}
        /\ pc = "failed" => err = "DegenerateVariance"

\* C3: a run that leaves N <= k records (k = 8 in the script) ends in
\* InvalidK at the construction of the neighbour graph, with no weights
\* structure and no statistic.  (Stated for 1 <= N; an empty table is
\* refused before any point is indexed.)
C3_InvalidK ==
    ("precio_m2" \in gdf.cols /\ pc \notin {"filter", "knn"} /\ 1 <= N /\ N <= k) =>
        /\ pc = "failed"
        /\ err = "InvalidK"
        /\ ~Built
        /\ moran = NoMoran /\ lisa = NoLisa

C5_RowStandardized ==
    [][pc = "transform" =>
          /\ w'.neighbors = w.neighbors
          /\ w'.transform = "R"
          /\ \A i \in Units :
                /\ DOMAIN w'.weights[i] = DOMAIN w.neighbors[i]
                /\ \A p \in DOMAIN w'.weights[i] :
                      w'.weights[i][p] = Norm(1, Len(w.neighbors[i]))
                /\ RowSum(w'.weights[i]) = One
          /\ S0(w') = Num(N)]_vars

C5_Witness ==
    /\ w.transform = "R"
    /\ k >= 2
    /\ N >= 3
    /\ \A i \in Units : \A p \in DOMAIN w.weights[i] : w.weights[i][p] = Norm(1, k)

Extreme(sim, obs, ref) ==
    IF RGe(obs, ref)
    THEN Cardinality({r \in DOMAIN sim : RGe(sim[r], obs)})
    ELSE Cardinality({r \in DOMAIN sim : RGe(obs, sim[r])})

EI == Norm(-1, N - 1)

FoldedP(sim, obs, p) ==
    LET L == Cardinality({r \in DOMAIN sim : RGe(sim[r], obs)})
        c == Min(L, PERMUTATIONS - L)
    IN  /\ Len(sim) = PERMUTATIONS
        /\ p = Norm(c + 1, PERMUTATIONS + 1)
        /\ 0 <= c /\ 2 * c <= PERMUTATIONS
        /\ RGe(p, Norm(1, PERMUTATIONS + 1)) /\ RGe(One, p)

C7_Deterministic ==
    (run = 2 /\ pc = "done") =>
        /\ moran.I = first.moran.I
        /\ lisa.Is = first.lisa.Is
        /\ lisa.q = first.lisa.q
        /\ moran.p_sim = first.moran.p_sim
        /\ lisa.p_sim = first.lisa.p_sim

\* C10: when a required column is missing, the recovery step either raises
\* RuntimeError or continues with both required columns in the table; the
\* precio_m2 computation is never reached with a column still missing.
C10_RecoveredOrRuntimeError ==
    /\ pc = "precio" => required_cols \subseteq gdf.cols
    /\ err # "KeyError"

====
